---- MODULE Spec2Model ----
(***************************************************************************)
(* Model of the two doubly-linked lists of src/lists:                      *)
(*   UnsafeLinkedList (raw NonNull links, Box::leak / Box::from_raw) and   *)
(*   SafeLinkedList   (Rc<RefCell<Node>> next links, Weak prev links),     *)
(* and of the linked_list! macro.                                          *)
(*                                                                         *)
(* A behaviour drives ONE list of one engine (eng), chosen in Init, next   *)
(* to a reference sequence (ref) on which the same calls are replayed.     *)
(*                                                                         *)
(* Heap: node handles are 1..MaxNodes, 0 is None.  Every allocation gets   *)
(* a fresh handle, so a handle names one allocation for ever and a handle  *)
(* outside `live` is a dangling pointer.                                   *)
(*                                                                         *)
(* usize: len is kept as the representative r of the residue class         *)
(* r mod 2^64 that is closest to 0, so r = -1 stands for usize::MAX, the   *)
(* value `0 - 1` wraps to when overflow checks are off.                    *)
(*                                                                         *)
(* Undefined behaviour: a read through a dangling handle yields any node   *)
(* content (GarbageNode); freeing a dangling handle may also abort in the  *)
(* allocator.  The list is not followed further once an operation has      *)
(* executed undefined behaviour (status "ub"), has panicked or aborted.    *)
(*                                                                         *)
(* RefCell: the Ref / RefMut guards that SafeLinkedList's peeks hand out   *)
(* are counted per node (views).  A guard borrows the list, so calls that  *)
(* take `&mut self` or `self` wait until every guard has been dropped or   *)
(* leaked; a leaked guard leaves its node borrowed (leak).                 *)
(*                                                                         *)
(* Specifications: Spec (any calls on a list of either engine), SpecSafe   *)
(* (SafeLinkedList alone), SpecLit (a list built from a literal, then      *)
(* rendered, drained, indexed or round-tripped) and SpecClear (clear()     *)
(* against new()).                                                         *)
(***************************************************************************)
EXTENDS Integers, Sequences, FiniteSets, TLC

\* ---------------------------------------------------------------- bounds
MaxNodes == 4      \* allocations made by one list during one behaviour
MaxVal == 1        \* payloads are 0..MaxVal
MaxViews == 2      \* guards (Ref, RefMut) a caller holds at one time

None == 0
Handles == 1..MaxNodes
Ptr == 0..MaxNodes
Data == 0..MaxVal
Idx == 0..MaxNodes

\* ------------------------------------------------------- results of calls
NONE == [tag |-> "None"]
Some(v) == [tag |-> "Some", val |-> v]
UNIT == [tag |-> "Unit"]
PANIC == [tag |-> "panic"]
ABORT == [tag |-> "abort"]
FAULT == [tag |-> "fault"]
DIVERGE == [tag |-> "diverge"]
LenRes(n) == [tag |-> "Len", val |-> n]
Str(s) == [tag |-> "Str", val |-> s]
BoolRes(b) == [tag |-> "Bool", val |-> b]

Outcome(st, r) == [st |-> st, res |-> r]

\* ------------------------------------------------------------------ nodes
Node(d, p, n) == [data |-> d, prev |-> p, next |-> n]

\* content the model keeps in a slot that holds no allocation; never read
FreedNode == Node(0, None, None)

\* what a read through a dangling handle may yield
GarbageNode == [data : Data, prev : Ptr, next : Ptr]

\* ========================================================================
\*                     UnsafeLinkedList  (unsafe_linked_list.rs)
\* ========================================================================

UnsafeNew ==
  [head |-> None, tail |-> None, len |-> 0,
   mem |-> [a \in Handles |-> FreedNode], live |-> {}, nid |-> 0,
   status |-> "ok", mode |-> "list",
   dfree |-> FALSE, uaf |-> FALSE, refd |-> FALSE]

\* `unsafe { *ptr }`: the node behind a handle
UnsafeDeref(u, a) == IF a \in u.live THEN {u.mem[a]} ELSE GarbageNode

\* a is named by a terminal or by a link of another allocated node
Referenced(u, a) ==
  \/ u.head = a
  \/ u.tail = a
  \/ \E m \in u.live \ {a} : u.mem[m].prev = a \/ u.mem[m].next = a

\* drop of the Box made by Box::from_raw(a)
UnsafeFree(u, a) ==
  [u EXCEPT !.live = @ \ {a},
            !.mem = [m \in Handles |-> IF m = a THEN FreedNode ELSE @[m]],
            !.dfree = @ \/ a \notin u.live,
            !.refd = @ \/ (a \in u.live /\ Referenced(u, a))]

\* Box::leak(Box::new(node)).into()
UnsafeAlloc(u, node) ==
  [u EXCEPT !.nid = @ + 1,
            !.live = @ \cup {u.nid + 1},
            !.mem[u.nid + 1] = node]

\* `(*p.as_ptr()).next = x`; a write through a dangling handle is UB
UnsafeSetNext(u, p, x) ==
  IF p \in u.live THEN [u EXCEPT !.mem[p].next = x]
  ELSE [u EXCEPT !.uaf = TRUE, !.status = "ub"]

UnsafeSetPrev(u, p, x) ==
  IF p \in u.live THEN [u EXCEPT !.mem[p].prev = x]
  ELSE [u EXCEPT !.uaf = TRUE, !.status = "ub"]

\* mutant of UnsafePushFront: the node is linked in on the head side
UnsafePushFront_AtHead(u, value) ==
  LET node == u.nid + 1
      u1 == UnsafeAlloc(u, Node(value, None, u.head))
      u2 == IF u.head = None THEN [u1 EXCEPT !.tail = node]
            ELSE UnsafeSetPrev(u1, u.head, node)
  IN {Outcome([u2 EXCEPT !.head = node, !.len = @ + 1], UNIT)}

UnsafePushFront_NoCount(u, value) ==
  LET node == u.nid + 1
      u1 == UnsafeAlloc(u, Node(value, u.tail, None))
      u2 == IF u.tail = None THEN [u1 EXCEPT !.head = node]
            ELSE UnsafeSetNext(u1, u.tail, node)
  IN {Outcome([u2 EXCEPT !.tail = node], UNIT)}

UnsafePushFront(u, value) ==
  LET node == u.nid + 1
      u1 == UnsafeAlloc(u, Node(value, u.tail, None))
      u2 == IF u.tail = None THEN [u1 EXCEPT !.head = node]
            ELSE UnsafeSetNext(u1, u.tail, node)
  IN {Outcome([u2 EXCEPT !.tail = node, !.len = @ + 1], UNIT)}

UnsafePushBack(u, value) ==
  LET node == u.nid + 1
      u1 == UnsafeAlloc(u, Node(value, None, u.head))
      u2 == IF u.head = None THEN [u1 EXCEPT !.tail = node]
            ELSE UnsafeSetPrev(u1, u.head, node)
  IN {Outcome([u2 EXCEPT !.head = node, !.len = @ + 1], UNIT)}

\* The body of the closure of pop_front / pop_back once the terminal `a`
\* is known to be Some and the terminal has been overwritten (u1): `d` is
\* the node's data, `ub` says that `a` was dangling.  `self.len -= 1` at len 0 panics when overflow
\* checks are on (the Box is then dropped by unwinding) and wraps otherwise.
UnsafePopOutcomes(u1, a, d, ub) ==
  LET wrapped == UnsafeFree([u1 EXCEPT !.len = @ - 1], a)
      done == [wrapped EXCEPT !.status = IF ub THEN "ub" ELSE @]
      panicked == [UnsafeFree(u1, a) EXCEPT !.status = "panicked"]
      aborted == [UnsafeFree(u1, a) EXCEPT !.status = "aborted"]
  IN {Outcome(done, Some(d))}
       \cup (IF u1.len = 0 THEN {Outcome(panicked, PANIC)} ELSE {})
       \cup (IF ub THEN {Outcome(aborted, ABORT)} ELSE {})

\* mutant of UnsafePopFront: the new tail is read from next, not prev
UnsafePopFront_TakesNext(u) ==
  IF u.tail = None THEN {Outcome(u, NONE)}
  ELSE LET tail == u.tail
           ub == tail \notin u.live
       IN UNION { UnsafePopOutcomes(
                    [u EXCEPT !.tail = n.next, !.uaf = @ \/ ub],
                    tail, n.data, ub) : n \in UnsafeDeref(u, tail) }

UnsafePopFront(u) ==
  IF u.tail = None THEN {Outcome(u, NONE)}
  ELSE LET tail == u.tail
           ub == tail \notin u.live
       IN UNION { UnsafePopOutcomes(
                    [u EXCEPT !.tail = n.prev, !.uaf = @ \/ ub],
                    tail, n.data, ub) : n \in UnsafeDeref(u, tail) }

UnsafePopBack(u) ==
  IF u.head = None THEN {Outcome(u, NONE)}
  ELSE LET head == u.head
           ub == head \notin u.live
       IN UNION { UnsafePopOutcomes(
                    [u EXCEPT !.head = n.next, !.uaf = @ \/ ub],
                    head, n.data, ub) : n \in UnsafeDeref(u, head) }

UnsafeLen(u) == u.len

UnsafeIsEmpty(u) == UnsafeLen(u) = 0

\* `node = unsafe { node.unwrap().as_ref().next }` repeated k times (nth's
\* for loops); dir is "next" or "prev".  Yields the handles the loop can end
\* on, or -1 where unwrap() meets None and panics.
RECURSIVE UnsafeWalk(_, _, _, _)
UnsafeWalk(u, node, k, dir) ==
  IF k = 0 THEN {node}
  ELSE IF node = None THEN {-1}
  ELSE UNION { UnsafeWalk(u, IF dir = "next" THEN n.next ELSE n.prev, k - 1, dir)
               : n \in UnsafeDeref(u, node) }

\* some step of the walk of k links from `node` reads through a dangling handle
RECURSIVE UnsafeWalkDangles(_, _, _, _)
UnsafeWalkDangles(u, node, k, dir) ==
  /\ k > 0
  /\ node # None
  /\ \/ node \notin u.live
     \/ UnsafeWalkDangles(u, IF dir = "next" THEN u.mem[node].next
                             ELSE u.mem[node].prev, k - 1, dir)

\* the tail of nth: `Box::from_raw(node.unwrap().as_ptr())`, `Some(node.data)`,
\* and the Box dropped at the end of the block.  A pointer that the walk
\* read out of freed memory may name no mapped memory at all: following it,
\* or reading the node behind it, may fault.
UnsafeTake(u, node, walked_ub) ==
  IF node = -1 \/ node = None
  THEN {Outcome([u EXCEPT !.status = "panicked",
                          !.uaf = @ \/ walked_ub], PANIC)}
  ELSE LET ub == walked_ub \/ node \notin u.live
           freed == UnsafeFree([u EXCEPT !.uaf = @ \/ ub], node)
       IN { Outcome([freed EXCEPT !.status = IF ub THEN "ub" ELSE @],
                    Some(n.data)) : n \in UnsafeDeref(u, node) }
            \cup (IF node \notin u.live
                  THEN {Outcome([freed EXCEPT !.status = "aborted"], ABORT)}
                  ELSE {})
            \cup (IF walked_ub
                  THEN {Outcome([u EXCEPT !.uaf = TRUE, !.status = "ub"], FAULT)}
                  ELSE {})

UnsafeNthSteps_FromHead(u, index) == index

\* number of links nth follows for a valid index
UnsafeNthSteps(u, index) ==
  IF index < UnsafeLen(u) \div 2 THEN index ELSE UnsafeLen(u) - index - 1

UnsafeNthFromHead(u, index) == index < UnsafeLen(u) \div 2

UnsafeNth(u, index) ==
  IF index >= UnsafeLen(u) THEN {Outcome(u, NONE)}
  ELSE LET dir == IF UnsafeNthFromHead(u, index) THEN "next" ELSE "prev"
           start == IF UnsafeNthFromHead(u, index) THEN u.head ELSE u.tail
           k == UnsafeNthSteps(u, index)
       IN UNION { UnsafeTake(u, node, UnsafeWalkDangles(u, start, k, dir))
                  : node \in UnsafeWalk(u, start, k, dir) }

\* front reads the tail node, back the head node
UnsafePeek(u, a) ==
  IF a = None THEN {Outcome(u, NONE)}
  ELSE IF a \in u.live THEN {Outcome(u, Some(u.mem[a].data))}
  ELSE { Outcome([u EXCEPT !.uaf = TRUE, !.status = "ub"], Some(n.data))
         : n \in GarbageNode }

UnsafeFront(u) == UnsafePeek(u, u.tail)

UnsafeBack(u) == UnsafePeek(u, u.head)

\* `if let Some(x) = list.front_mut() { *x = value }` (back_mut likewise):
\* the `&mut T` into the terminal node `a`, and the assignment through it;
\* the result is what front_mut / back_mut returned
UnsafePeekMut(u, a, value) ==
  IF a = None THEN {Outcome(u, NONE)}
  ELSE IF a \in u.live
  THEN {Outcome([u EXCEPT !.mem[a].data = value], Some(u.mem[a].data))}
  ELSE { Outcome([u EXCEPT !.uaf = TRUE, !.status = "ub"], Some(n.data))
         : n \in GarbageNode }

UnsafeFrontMut(u, value) == UnsafePeekMut(u, u.tail, value)

UnsafeBackMut(u, value) == UnsafePeekMut(u, u.head, value)

UnsafeClear_KeepsTerminals(u) == {Outcome([u EXCEPT !.len = 0], UNIT)}

\* `*self = Self::new()`: the old value has no Drop impl and owns nothing,
\* so the nodes stay allocated
UnsafeClear(u) ==
  {Outcome([u EXCEPT !.head = None, !.tail = None, !.len = 0], UNIT)}

\* Display::fmt: the values written, from head along next.  A freed node
\* yields any data and any next (its old content, or what the allocator or
\* a later owner of the memory wrote there): the walk may end there, go on
\* to an allocated node or to another freed one, or fault where the next
\* read there names no mapped memory.  What is read
\* from a freed node does not depend on which one it is, so one dangling
\* handle stands for all of them.  `fuel` bounds the nodes visited.
RECURSIVE UnsafeFmt(_, _, _, _)
UnsafeFmt(u, node, out, fuel) ==
  IF node = None THEN {Str(out)}
  ELSE IF fuel = 0 THEN {DIVERGE}
  ELSE IF node \in u.live
       THEN UnsafeFmt(u, u.mem[node].next, Append(out, u.mem[node].data), fuel - 1)
  ELSE {FAULT}
         \cup UNION { UnsafeFmt(u, nx, Append(out, d), fuel - 1)
                      : d \in Data, nx \in {None, node} \cup u.live }

\* the walk of Display reads through a dangling handle
RECURSIVE UnsafeFmtDangles(_, _, _)
UnsafeFmtDangles(u, node, fuel) ==
  /\ node # None
  /\ fuel > 0
  /\ \/ node \notin u.live
     \/ UnsafeFmtDangles(u, u.mem[node].next, fuel - 1)

UnsafeDisplay(u) ==
  LET ub == UnsafeFmtDangles(u, u.head, MaxNodes + 1)
      st == IF ub THEN [u EXCEPT !.uaf = TRUE, !.status = "ub"] ELSE u
  IN { Outcome(st, r) : r \in UnsafeFmt(u, u.head, <<>>, MaxNodes + 1) }

\* IntoIterator::into_iter: the list moves into the Iter
UnsafeIntoIter(u) == {Outcome([u EXCEPT !.mode = "iter"], UNIT)}

\* Iterator::next
UnsafeIterNext(u) == UnsafePopBack(u)

\* the list (or the Iter holding it) goes out of scope: there is no Drop
\* impl, and NonNull owns nothing
UnsafeDrop(u) == {Outcome([u EXCEPT !.mode = "dropped"], UNIT)}

\* ========================================================================
\*                      SafeLinkedList  (safe_linked_list.rs)
\* ========================================================================
\* next is an Rc (strong), prev a Weak.  A node is allocated exactly while
\* its strong count is positive; the count is read off the structure.

\* Every node is an Rc<RefCell<Node>>, and its RefCell counts the borrows
\* taken and not given back: sh the Ref<T> of peek_front / peek_back, mu the
\* RefMut<T> of peek_front_mut / peek_back_mut.  A guard gives its borrow
\* back when it is dropped; a guard that is leaked (std::mem::forget) never
\* does, and its node stays borrowed for the rest of the run.
View(sh, mu) == [sh |-> sh, mu |-> mu]
NoViews == [n \in Handles |-> View(0, 0)]

\* `tail.borrow()`: granted unless the node is mutably borrowed
SafeBorrowOk(vw, n) == vw[n].mu = 0

SafeBorrowMutOk_IgnoresRefs(vw, n) == vw[n].mu = 0

\* `tail.borrow_mut()`: granted only if the node is not borrowed at all
SafeBorrowMutOk(vw, n) == vw[n].mu = 0 /\ vw[n].sh = 0

\* leak[n]: the borrows of node n whose guard was leaked
SafeNew ==
  [head |-> None, tail |-> None, len |-> 0,
   mem |-> [a \in Handles |-> FreedNode], live |-> {}, nid |-> 0,
   status |-> "ok", mode |-> "list",
   dfree |-> FALSE, uaf |-> FALSE, refd |-> FALSE,
   leak |-> NoViews]

\* Rc::strong_count, not counting the Rcs held in local variables
StrongCount(s, a) ==
  (IF s.head = a THEN 1 ELSE 0) + (IF s.tail = a THEN 1 ELSE 0)
    + Cardinality({m \in s.live : s.mem[m].next = a})

\* Drop for Rc: every node whose last strong reference is gone is
\* deallocated, which drops its own next in turn; `held` are the nodes
\* that local variables still own.
RECURSIVE SafeCollect(_, _)
SafeCollect(s, held) ==
  LET dead == {a \in s.live \ held : StrongCount(s, a) = 0}
  IN IF dead = {} THEN s
     ELSE SafeCollect(
            [s EXCEPT !.live = @ \ dead,
                      !.mem = [m \in Handles |->
                                 IF m \in dead THEN FreedNode ELSE @[m]]],
            held)

\* Weak::upgrade
Upgrade(s, w) == IF w \in s.live THEN w ELSE None

\* a panic inside a method: unwinding drops the Rcs held in local variables
SafePanic(s) == Outcome([SafeCollect(s, {}) EXCEPT !.status = "panicked"], PANIC)

\* Node::new
SafeAlloc(s, value) ==
  [s EXCEPT !.nid = @ + 1,
            !.live = @ \cup {s.nid + 1},
            !.mem[s.nid + 1] = Node(value, None, None)]

SafePushFront_NoNext(s, value) ==
  LET new_tail == s.nid + 1
      s1 == SafeAlloc([s EXCEPT !.len = @ + 1], value)
      old_tail == s.tail
      s2 == IF old_tail # None
            THEN [s1 EXCEPT !.mem[new_tail].prev = old_tail,
                            !.tail = new_tail]
            ELSE [s1 EXCEPT !.head = new_tail, !.tail = new_tail]
  IN IF old_tail # None /\ ~SafeBorrowMutOk(s.leak, old_tail)
     THEN {SafePanic([s1 EXCEPT !.mem[new_tail].prev = old_tail,
                                !.tail = None])}
     ELSE {Outcome(SafeCollect(s2, {}), UNIT)}

\* push_front: `self.tail.take()` has emptied tail when
\* `old_tail.borrow_mut()` meets a node that is still borrowed and panics
SafePushFront(s, value) ==
  LET new_tail == s.nid + 1
      s1 == SafeAlloc([s EXCEPT !.len = @ + 1], value)
      old_tail == s.tail
      s2 == IF old_tail # None
            THEN [s1 EXCEPT !.mem[new_tail].prev = old_tail,
                            !.mem[old_tail].next = new_tail,
                            !.tail = new_tail]
            ELSE [s1 EXCEPT !.head = new_tail, !.tail = new_tail]
  IN IF old_tail # None /\ ~SafeBorrowMutOk(s.leak, old_tail)
     THEN {SafePanic([s1 EXCEPT !.mem[new_tail].prev = old_tail,
                                !.tail = None])}
     ELSE {Outcome(SafeCollect(s2, {}), UNIT)}

\* push_back: `self.head.take()` has emptied head when
\* `old_head.borrow_mut()` meets a node that is still borrowed and panics
SafePushBack(s, value) ==
  LET new_head == s.nid + 1
      s1 == SafeAlloc([s EXCEPT !.len = @ + 1], value)
      old_head == s.head
      s2 == IF old_head # None
            THEN [s1 EXCEPT !.mem[old_head].prev = new_head,
                            !.mem[new_head].next = old_head,
                            !.head = new_head]
            ELSE [s1 EXCEPT !.head = new_head, !.tail = new_head]
  IN IF old_head # None /\ ~SafeBorrowMutOk(s.leak, old_head)
     THEN {SafePanic([s1 EXCEPT !.head = None])}
     ELSE {Outcome(SafeCollect(s2, {}), UNIT)}

\* `Rc::try_unwrap(old).ok().unwrap().into_inner().data`: s is the list
\* with the links already rewired, `old` the node owned by the local Rc.
SafeUnwrap(s, old) ==
  IF StrongCount(s, old) = 0
  THEN Outcome(SafeCollect(
                 [s EXCEPT !.live = @ \ {old},
                           !.mem = [m \in Handles |->
                                      IF m = old THEN FreedNode ELSE @[m]]],
                 {}),
               Some(s.mem[old].data))
  ELSE Outcome([SafeCollect(s, {}) EXCEPT !.status = "panicked"], PANIC)

\* `self.len -= 1` inside the closures: at len 0 it panics when overflow
\* checks are on and wraps otherwise; yields the lists to go on with
SafeDecLen(s) ==
  {Outcome([s EXCEPT !.len = @ - 1], UNIT)}
    \cup (IF s.len = 0
          THEN {Outcome([SafeCollect(s, {}) EXCEPT !.status = "panicked"], PANIC)}
          ELSE {})

SafePopFrontGuard_KeepsHead(s) == s

\* pop_front's first statement: `if self.len() == 1 { self.head = None; }`
SafePopFrontGuard(s) ==
  IF s.len = 1 THEN SafeCollect([s EXCEPT !.head = None], {}) ELSE s

\* pop_front's closure, after `self.len -= 1`, on the taken old_tail:
\* `old_tail.borrow_mut()` and, when the prev link upgrades,
\* `new_tail.borrow_mut()` panic on a node that is still borrowed
SafePopFrontBody(s, old_tail) ==
  LET w == s.mem[old_tail].prev
      s1 == [s EXCEPT !.mem[old_tail].prev = None]
      new_tail == Upgrade(s1, w)
  IN IF ~SafeBorrowMutOk(s.leak, old_tail) THEN SafePanic(s)
     ELSE IF w = None THEN SafeUnwrap(s1, old_tail)
     ELSE IF new_tail = None
          THEN SafeUnwrap([s1 EXCEPT !.tail = None], old_tail)
     ELSE IF new_tail = old_tail
          \* old_tail is still mutably borrowed by the scrutinee
          THEN Outcome([SafeCollect([s1 EXCEPT !.tail = new_tail], {})
                          EXCEPT !.status = "panicked"], PANIC)
     ELSE IF ~SafeBorrowMutOk(s.leak, new_tail)
          THEN SafePanic([s1 EXCEPT !.tail = new_tail])
     ELSE SafeUnwrap(
            SafeCollect([s1 EXCEPT !.tail = new_tail,
                                   !.mem[new_tail].next = None], {old_tail}),
            old_tail)

SafePopFront(s) ==
  LET s1 == SafePopFrontGuard(s)
      old_tail == s1.tail
  IN IF old_tail = None THEN {Outcome(s1, NONE)}
     ELSE { IF d.res = PANIC THEN d ELSE SafePopFrontBody(d.st, old_tail)
            : d \in SafeDecLen([s1 EXCEPT !.tail = None]) }

\* pop_back's first statement: `if self.len() == 1 { self.tail = None; }`
SafePopBackGuard(s) ==
  IF s.len = 1 THEN SafeCollect([s EXCEPT !.tail = None], {}) ELSE s

\* pop_back's closure, after `self.len -= 1`, on the taken old_head:
\* `old_head.borrow_mut()` and, when there is a next node,
\* `new_head.borrow_mut()` panic on a node that is still borrowed
SafePopBackBody(s, old_head) ==
  LET new_head == s.mem[old_head].next
      s1 == [s EXCEPT !.mem[old_head].next = None]
  IN IF ~SafeBorrowMutOk(s.leak, old_head) THEN SafePanic(s)
     ELSE IF new_head = None THEN SafeUnwrap(s1, old_head)
     ELSE IF new_head = old_head
          THEN Outcome([SafeCollect(s1, {}) EXCEPT !.status = "panicked"], PANIC)
     ELSE IF ~SafeBorrowMutOk(s.leak, new_head) THEN SafePanic(s1)
     ELSE SafeUnwrap([s1 EXCEPT !.mem[new_head].prev = None,
                                !.head = new_head],
                     old_head)

SafePopBack(s) ==
  LET s1 == SafePopBackGuard(s)
      old_head == s1.head
  IN IF old_head = None THEN {Outcome(s1, NONE)}
     ELSE { IF d.res = PANIC THEN d ELSE SafePopBackBody(d.st, old_head)
            : d \in SafeDecLen([s1 EXCEPT !.head = None]) }

SafeLen(s) == s.len

\* Display::fmt: the values written, from head along next
RECURSIVE SafeFmt(_, _, _, _)
SafeFmt(s, node, out, fuel) ==
  IF node = None THEN Str(out)
  ELSE IF fuel = 0 THEN DIVERGE
  ELSE SafeFmt(s, s.mem[node].next, Append(out, s.mem[node].data), fuel - 1)

SafeIntoIter(s) == {Outcome([s EXCEPT !.mode = "iter"], UNIT)}

SafeIterNext(s) == SafePopBack(s)

\* the list (or the Iter holding it) goes out of scope: head and tail are
\* dropped, and with them every node they own
SafeDrop(s) ==
  {Outcome(SafeCollect([s EXCEPT !.mode = "dropped", !.head = None,
                                 !.tail = None], {}), UNIT)}


\* ------------------------------------------------ RefCell guards on nodes
Viewed(st, r, vw) == [st |-> st, res |-> r, views |-> vw]

\* `terminal.as_ref().map(|n| Ref::map(n.borrow(), |node| &node.data))`
SafePeek(s, vw, n) ==
  IF n = None THEN {Viewed(s, NONE, vw)}
  ELSE IF SafeBorrowOk(vw, n)
  THEN {Viewed(s, Some(s.mem[n].data),
               [vw EXCEPT ![n] = View(@.sh + 1, @.mu)])}
  ELSE {Viewed([s EXCEPT !.status = "panicked"], PANIC, vw)}

\* `terminal.as_ref().map(|n| RefMut::map(n.borrow_mut(), |node| &mut node.data))`
SafePeekMut(s, vw, n) ==
  IF n = None THEN {Viewed(s, NONE, vw)}
  ELSE IF SafeBorrowMutOk(vw, n)
  THEN {Viewed(s, Some(s.mem[n].data),
               [vw EXCEPT ![n] = View(@.sh, @.mu + 1)])}
  ELSE {Viewed([s EXCEPT !.status = "panicked"], PANIC, vw)}

SafePeekFront(s, vw) == SafePeek(s, vw, s.tail)
SafePeekBack(s, vw) == SafePeek(s, vw, s.head)
SafePeekFrontMut(s, vw) == SafePeekMut(s, vw, s.tail)
SafePeekBackMut(s, vw) == SafePeekMut(s, vw, s.head)

\* Display borrows every node it visits (`n.borrow().data`,
\* `n.borrow().next`): it panics at the first one that is mutably borrowed
RECURSIVE SafeFmtBlocked(_, _, _, _)
SafeFmtBlocked(s, vw, node, fuel) ==
  IF node = None \/ fuel = 0 THEN FALSE
  ELSE IF ~SafeBorrowOk(vw, node) THEN TRUE
  ELSE SafeFmtBlocked(s, vw, s.mem[node].next, fuel - 1)

\* Display::fmt on a list whose nodes have the borrows vw
SafeDisplayHeld(s, vw) ==
  IF SafeFmtBlocked(s, vw, s.head, MaxNodes + 1)
  THEN {Outcome([s EXCEPT !.status = "panicked"], PANIC)}
  ELSE {Outcome(s, SafeFmt(s, s.head, <<>>, MaxNodes + 1))}

\* Display::fmt while the caller holds no guard
SafeDisplay(s) == SafeDisplayHeld(s, s.leak)

\* ========================================================================
\*                 the reference sequence of the shared contract
\* ========================================================================
\* The head of the list is the first element: push_back prepends, push_front
\* appends, pop_back takes the first element and pop_front the last.

RefPushFront(q, v) == Append(q, v)
RefPushBack(q, v) == <<v>> \o q
RefPopFront(q) ==
  IF q = <<>> THEN Outcome(q, NONE)
  ELSE Outcome(SubSeq(q, 1, Len(q) - 1), Some(q[Len(q)]))
RefPopBack(q) ==
  IF q = <<>> THEN Outcome(q, NONE) ELSE Outcome(Tail(q), Some(Head(q)))
RefNth(q, i) == IF i < Len(q) THEN Some(q[i + 1]) ELSE NONE
RefFront(q) == IF q = <<>> THEN NONE ELSE Some(q[Len(q)])
RefBack(q) == IF q = <<>> THEN NONE ELSE Some(q[1])
RefSetFront(q, v) == IF q = <<>> THEN q ELSE [q EXCEPT ![Len(q)] = v]
RefSetBack(q, v) == IF q = <<>> THEN q ELSE [q EXCEPT ![1] = v]

Reverse(q) == [i \in 1..Len(q) |-> q[Len(q) + 1 - i]]

\* ========================================================================
\*                                 state
\* ========================================================================
VARIABLES
  eng,            \* "unsafe" or "safe": the implementation under test
  l,              \* the list: terminals, len, heap, status
  ref,            \* the reference sequence
  op,             \* the last call
  res,            \* what the last call returned
  r_res,          \* what the reference returned for it
  ins,            \* push calls so far
  rem,            \* pop calls so far that returned Some
  contract_only,  \* only push_*, pop_* and len have been called
  lit,            \* linked_list! scenario: the literal
  build,          \* linked_list! scenario: the insertion used to build
  pc,             \* linked_list! scenario: position; "free" otherwise
  out,            \* linked_list! scenario: values drained so far
  snap,           \* linked_list! scenario: the list before a push/pop round trip
  rep,            \* linked_list![elem; n]: the count and what elem turned out to be
  views           \* SafeLinkedList: the borrows each node's RefCell counts

vars == <<eng, l, ref, op, res, r_res, ins, rem, contract_only, lit, build, rep, pc,
          out, snap, views>>

Engines == {"unsafe", "safe"}

New(e) == IF e = "unsafe" THEN UnsafeNew ELSE SafeNew
PushFrontOf(e, st, v) ==
  IF e = "unsafe" THEN UnsafePushFront(st, v) ELSE SafePushFront(st, v)
PushBackOf(e, st, v) ==
  IF e = "unsafe" THEN UnsafePushBack(st, v) ELSE SafePushBack(st, v)
PopFrontOf(e, st) == IF e = "unsafe" THEN UnsafePopFront(st) ELSE SafePopFront(st)
PopBackOf(e, st) == IF e = "unsafe" THEN UnsafePopBack(st) ELSE SafePopBack(st)
LenOf(e, st) == IF e = "unsafe" THEN UnsafeLen(st) ELSE SafeLen(st)
DisplayOf(e, st) == IF e = "unsafe" THEN UnsafeDisplay(st) ELSE SafeDisplay(st)
IntoIterOf(e, st) == IF e = "unsafe" THEN UnsafeIntoIter(st) ELSE SafeIntoIter(st)
IterNextOf(e, st) == IF e = "unsafe" THEN UnsafeIterNext(st) ELSE SafeIterNext(st)
DropOf(e, st) == IF e = "unsafe" THEN UnsafeDrop(st) ELSE SafeDrop(st)

Call(name, arg) == [name |-> name, arg |-> arg]

\* the list was not built by linked_list![elem; n]
NoRep == [n |-> 0, value |-> NONE, returned |-> TRUE]

\* the list can be called through `&self`
Shared == pc = "free" /\ l.status = "ok" /\ l.mode = "list"

\* the borrows whose guard was leaked: they stay in the RefCells, but the
\* guard no longer borrows the list
Leaked == IF eng = "safe" THEN l.leak ELSE NoViews

\* the list can be called through `&mut self` or moved: every guard, which
\* borrows the list, has been dropped or leaked
Usable == Shared /\ views = Leaked

ScenarioUnchanged == UNCHANGED <<eng, views, lit, build, rep, pc, out, snap>>

Init ==
  /\ eng \in Engines
  /\ l = New(eng)
  /\ ref = <<>>
  /\ op = Call("new", 0)
  /\ res = UNIT
  /\ r_res = UNIT
  /\ ins = 0
  /\ rem = 0
  /\ contract_only = TRUE
  /\ lit = <<>>
  /\ build = "none"
  /\ rep = NoRep
  /\ pc = "free"
  /\ out = <<>>
  /\ snap = l
  /\ views = NoViews

PushFront(v) ==
  /\ Usable
  /\ l.nid < MaxNodes
  /\ \E o \in PushFrontOf(eng, l, v) : l' = o.st /\ res' = o.res
  /\ ref' = RefPushFront(ref, v)
  /\ r_res' = UNIT
  /\ op' = Call("push_front", v)
  /\ ins' = ins + 1
  /\ UNCHANGED <<rem, contract_only>>
  /\ ScenarioUnchanged

PushBack(v) ==
  /\ Usable
  /\ l.nid < MaxNodes
  /\ \E o \in PushBackOf(eng, l, v) : l' = o.st /\ res' = o.res
  /\ ref' = RefPushBack(ref, v)
  /\ r_res' = UNIT
  /\ op' = Call("push_back", v)
  /\ ins' = ins + 1
  /\ UNCHANGED <<rem, contract_only>>
  /\ ScenarioUnchanged

PopFront ==
  /\ Usable
  /\ \E o \in PopFrontOf(eng, l) :
       /\ l' = o.st
       /\ res' = o.res
       /\ rem' = IF o.res.tag = "Some" THEN rem + 1 ELSE rem
  /\ ref' = RefPopFront(ref).st
  /\ r_res' = RefPopFront(ref).res
  /\ op' = Call("pop_front", 0)
  /\ UNCHANGED <<ins, contract_only>>
  /\ ScenarioUnchanged

PopBack ==
  /\ Usable
  /\ \E o \in PopBackOf(eng, l) :
       /\ l' = o.st
       /\ res' = o.res
       /\ rem' = IF o.res.tag = "Some" THEN rem + 1 ELSE rem
  /\ ref' = RefPopBack(ref).st
  /\ r_res' = RefPopBack(ref).res
  /\ op' = Call("pop_back", 0)
  /\ UNCHANGED <<ins, contract_only>>
  /\ ScenarioUnchanged

LenCall ==
  /\ Shared
  /\ res' = LenRes(LenOf(eng, l))
  /\ r_res' = LenRes(Len(ref))
  /\ op' = Call("len", 0)
  /\ UNCHANGED <<l, ref, ins, rem, contract_only>>
  /\ ScenarioUnchanged

Nth(i) ==
  /\ Usable
  /\ eng = "unsafe"
  /\ \E o \in UnsafeNth(l, i) : l' = o.st /\ res' = o.res
  /\ r_res' = RefNth(ref, i)
  /\ op' = Call("nth", i)
  /\ contract_only' = FALSE
  /\ UNCHANGED <<ref, ins, rem>>
  /\ ScenarioUnchanged

Front ==
  /\ Usable
  /\ eng = "unsafe"
  /\ \E o \in UnsafeFront(l) : l' = o.st /\ res' = o.res
  /\ r_res' = RefFront(ref)
  /\ op' = Call("front", 0)
  /\ contract_only' = FALSE
  /\ UNCHANGED <<ref, ins, rem>>
  /\ ScenarioUnchanged

Back ==
  /\ Usable
  /\ eng = "unsafe"
  /\ \E o \in UnsafeBack(l) : l' = o.st /\ res' = o.res
  /\ r_res' = RefBack(ref)
  /\ op' = Call("back", 0)
  /\ contract_only' = FALSE
  /\ UNCHANGED <<ref, ins, rem>>
  /\ ScenarioUnchanged

FrontMut(v) ==
  /\ Usable
  /\ eng = "unsafe"
  /\ \E o \in UnsafeFrontMut(l, v) : l' = o.st /\ res' = o.res
  /\ ref' = RefSetFront(ref, v)
  /\ r_res' = RefFront(ref)
  /\ op' = Call("front_mut", v)
  /\ contract_only' = FALSE
  /\ UNCHANGED <<ins, rem>>
  /\ ScenarioUnchanged

BackMut(v) ==
  /\ Usable
  /\ eng = "unsafe"
  /\ \E o \in UnsafeBackMut(l, v) : l' = o.st /\ res' = o.res
  /\ ref' = RefSetBack(ref, v)
  /\ r_res' = RefBack(ref)
  /\ op' = Call("back_mut", v)
  /\ contract_only' = FALSE
  /\ UNCHANGED <<ins, rem>>
  /\ ScenarioUnchanged

Clear ==
  /\ Usable
  /\ eng = "unsafe"
  /\ \E o \in UnsafeClear(l) : l' = o.st /\ res' = o.res
  /\ ref' = <<>>
  /\ r_res' = UNIT
  /\ op' = Call("clear", 0)
  /\ contract_only' = FALSE
  /\ UNCHANGED <<ins, rem>>
  /\ ScenarioUnchanged

Display ==
  /\ Shared
  /\ \E o \in (IF eng = "safe" THEN SafeDisplayHeld(l, views)
               ELSE DisplayOf(eng, l)) : l' = o.st /\ res' = o.res
  /\ r_res' = Str(ref)
  /\ op' = Call("fmt", 0)
  /\ contract_only' = FALSE
  /\ UNCHANGED <<ref, ins, rem>>
  /\ ScenarioUnchanged

IntoIter ==
  /\ Usable
  /\ \E o \in IntoIterOf(eng, l) : l' = o.st /\ res' = o.res
  /\ r_res' = UNIT
  /\ op' = Call("into_iter", 0)
  /\ contract_only' = FALSE
  /\ UNCHANGED <<ref, ins, rem>>
  /\ ScenarioUnchanged

IterNext ==
  /\ pc = "free"
  /\ l.status = "ok"
  /\ l.mode = "iter"
  /\ \E o \in IterNextOf(eng, l) :
       /\ l' = o.st
       /\ res' = o.res
       /\ rem' = IF o.res.tag = "Some" THEN rem + 1 ELSE rem
  /\ ref' = RefPopBack(ref).st
  /\ r_res' = RefPopBack(ref).res
  /\ op' = Call("next", 0)
  /\ UNCHANGED <<ins, contract_only>>
  /\ ScenarioUnchanged

Drop ==
  /\ pc = "free"
  /\ l.status = "ok"
  /\ l.mode \in {"list", "iter"}
  /\ views = Leaked
  /\ \E o \in DropOf(eng, l) : l' = o.st /\ res' = o.res
  /\ ref' = <<>>
  /\ r_res' = UNIT
  /\ op' = Call("drop", 0)
  /\ contract_only' = FALSE
  /\ UNCHANGED <<ins, rem>>
  /\ ScenarioUnchanged

\* the borrows counted on the nodes 1..n
RECURSIVE Held(_, _)
Held(vw, n) == IF n = 0 THEN 0 ELSE vw[n].sh + vw[n].mu + Held(vw, n - 1)

\* the caller never takes more than MaxViews guards, held and leaked
HeldWithinBound(vw) == Held(vw, MaxNodes) <= MaxViews

CallerUnchanged == UNCHANGED <<eng, lit, build, rep, pc, out, snap>>

PeekFront ==
  /\ Shared
  /\ eng = "safe"
  /\ \E o \in SafePeekFront(l, views) :
       /\ HeldWithinBound(o.views)
       /\ l' = o.st /\ res' = o.res /\ views' = o.views
  /\ r_res' = RefFront(ref)
  /\ op' = Call("peek_front", 0)
  /\ contract_only' = FALSE
  /\ UNCHANGED <<ref, ins, rem>>
  /\ CallerUnchanged

PeekBack ==
  /\ Shared
  /\ eng = "safe"
  /\ \E o \in SafePeekBack(l, views) :
       /\ HeldWithinBound(o.views)
       /\ l' = o.st /\ res' = o.res /\ views' = o.views
  /\ r_res' = RefBack(ref)
  /\ op' = Call("peek_back", 0)
  /\ contract_only' = FALSE
  /\ UNCHANGED <<ref, ins, rem>>
  /\ CallerUnchanged

PeekFrontMut ==
  /\ Shared
  /\ eng = "safe"
  /\ \E o \in SafePeekFrontMut(l, views) :
       /\ HeldWithinBound(o.views)
       /\ l' = o.st /\ res' = o.res /\ views' = o.views
  /\ r_res' = RefFront(ref)
  /\ op' = Call("peek_front_mut", 0)
  /\ contract_only' = FALSE
  /\ UNCHANGED <<ref, ins, rem>>
  /\ CallerUnchanged

PeekBackMut ==
  /\ Shared
  /\ eng = "safe"
  /\ \E o \in SafePeekBackMut(l, views) :
       /\ HeldWithinBound(o.views)
       /\ l' = o.st /\ res' = o.res /\ views' = o.views
  /\ r_res' = RefBack(ref)
  /\ op' = Call("peek_back_mut", 0)
  /\ contract_only' = FALSE
  /\ UNCHANGED <<ref, ins, rem>>
  /\ CallerUnchanged

\* the caller drops a guard it got from a peek: a Ref (mut = FALSE) or a
\* RefMut (mut = TRUE) on node n
ReleaseView(n, mut) ==
  /\ Shared
  /\ eng = "safe"
  /\ IF mut THEN views[n].mu > l.leak[n].mu ELSE views[n].sh > l.leak[n].sh
  /\ views' = [views EXCEPT ![n] = IF mut THEN View(@.sh, @.mu - 1)
                                    ELSE View(@.sh - 1, @.mu)]
  /\ op' = Call("drop_view", n)
  /\ res' = UNIT
  /\ r_res' = UNIT
  /\ contract_only' = FALSE
  /\ UNCHANGED <<l, ref, ins, rem>>
  /\ CallerUnchanged

\* the caller leaks a guard it got from a peek (std::mem::forget): the guard
\* is gone and the list is no longer borrowed by it, but its destructor
\* never runs, so the RefCell of node n keeps the borrow
ForgetView(n, mut) ==
  /\ Shared
  /\ eng = "safe"
  /\ IF mut THEN views[n].mu > l.leak[n].mu ELSE views[n].sh > l.leak[n].sh
  /\ l' = [l EXCEPT !.leak[n] = IF mut THEN View(@.sh, @.mu + 1)
                                 ELSE View(@.sh + 1, @.mu)]
  /\ op' = Call("forget_view", n)
  /\ res' = UNIT
  /\ r_res' = UNIT
  /\ contract_only' = FALSE
  /\ UNCHANGED <<ref, ins, rem, views>>
  /\ CallerUnchanged

\* the caller assigns through a RefMut it holds on node n: `*view = v`
WriteView(n, v) ==
  /\ Shared
  /\ eng = "safe"
  /\ views[n].mu > l.leak[n].mu
  /\ l' = [l EXCEPT !.mem[n].data = v]
  /\ ref' = [ref EXCEPT ![IF n = l.head THEN 1 ELSE Len(ref)] = v]
  /\ op' = Call("write", v)
  /\ res' = UNIT
  /\ r_res' = UNIT
  /\ contract_only' = FALSE
  /\ UNCHANGED <<ins, rem, views>>
  /\ CallerUnchanged

Next ==
  \/ \E v \in Data : PushFront(v)
  \/ \E v \in Data : PushBack(v)
  \/ PopFront
  \/ PopBack
  \/ LenCall
  \/ \E i \in Idx : Nth(i)
  \/ Front
  \/ Back
  \/ \E v \in Data : FrontMut(v)
  \/ \E v \in Data : BackMut(v)
  \/ Clear
  \/ Display
  \/ IntoIter
  \/ IterNext
  \/ Drop
  \/ PeekFront
  \/ PeekBack
  \/ PeekFrontMut
  \/ PeekBackMut
  \/ \E n \in Handles : \E mut \in BOOLEAN : ReleaseView(n, mut)
  \/ \E n \in Handles : \E mut \in BOOLEAN : ForgetView(n, mut)
  \/ \E n \in Handles : \E v \in Data : WriteView(n, v)

Spec == Init /\ [][Next]_vars

\* ---------------------------------------------- SafeLinkedList on its own
InitSafe == Init /\ eng = "safe"

NextSafe ==
  \/ \E v \in Data : PushFront(v)
  \/ \E v \in Data : PushBack(v)
  \/ PopFront
  \/ PopBack
  \/ LenCall
  \/ Display
  \/ IntoIter
  \/ IterNext
  \/ Drop
  \/ PeekFront
  \/ PeekBack
  \/ PeekFrontMut
  \/ PeekBackMut
  \/ \E n \in Handles : \E mut \in BOOLEAN : ReleaseView(n, mut)
  \/ \E n \in Handles : \E mut \in BOOLEAN : ForgetView(n, mut)
  \/ \E n \in Handles : \E v \in Data : WriteView(n, v)

SpecSafe == InitSafe /\ [][NextSafe]_vars

\* ========================================================================
\*        linked_list![v1, ..., vn] and the drain tests (macros.rs)
\* ========================================================================
\* A second specification: a list is built from a literal by repeated
\* push_front, as the macro expands (or by repeated push_back, as the
\* pop_back tests do), may be rendered, and is then drained from one end
\* with one call more than it has elements.  Instead of being drained it
\* may take one push immediately followed by the pop at the same end.

Lits == UNION { [1..n -> Data] : n \in 0..MaxNodes }

\* `$elem` is an expression, evaluated anew each time the loop reaches it,
\* inside the macro's own `for` loop.  An evaluation yields a value, or
\* executes `break` or `continue`, which act on that loop, or leaves the
\* macro altogether (return, panic, a labelled break): then no list is
\* returned.  elem[i] is what the i-th evaluation does; an expression that
\* is a value yields that value every time.
Value(v) == [tag |-> "value", val |-> v]
Break == [tag |-> "break"]
Continue == [tag |-> "continue"]
Leave == [tag |-> "leave"]
Exprs == [1..MaxNodes -> {Value(v) : v \in Data} \cup {Break, Continue, Leave}]

\* `for _ in 0..$n { list.push_front($elem); }` from iteration i on, with
\* the values `pushed` so far: the values pushed in all, and whether the
\* macro returns the list
RECURSIVE RepeatLoop(_, _, _, _)
RepeatLoop(elem, n, i, pushed) ==
  IF i > n THEN [pushed |-> pushed, returned |-> TRUE]
  ELSE IF elem[i] = Break THEN [pushed |-> pushed, returned |-> TRUE]
  ELSE IF elem[i] = Leave THEN [pushed |-> pushed, returned |-> FALSE]
  ELSE IF elem[i] = Continue THEN RepeatLoop(elem, n, i + 1, pushed)
  ELSE RepeatLoop(elem, n, i + 1, Append(pushed, elem[i].val))

\* `linked_list![elem; n]`
RepeatLit(elem, n) == RepeatLoop(elem, n, 1, <<>>)

\* elem is the value v: every evaluation yields v
IsValue(elem, v) == \A i \in DOMAIN elem : elem[i] = Value(v)

\* what a behaviour keeps of linked_list![elem; n]: the count n, the value
\* elem is (NONE when it is not a value), and whether the list is returned
Repeat(elem, n) ==
  [n |-> n,
   value |-> IF \E v \in Data : IsValue(elem, v)
             THEN Some(CHOOSE v \in Data : IsValue(elem, v)) ELSE NONE,
   returned |-> RepeatLit(elem, n).returned]

InitLit ==
  /\ eng \in Engines
  /\ l = New(eng)
  /\ ref = <<>>
  /\ op = Call("new", 0)
  /\ res = UNIT
  /\ r_res = UNIT
  /\ ins = 0
  /\ rem = 0
  /\ contract_only = TRUE
  /\ build \in {"push_front", "push_back", "repeat"}
  /\ IF build = "repeat"
     THEN \E e \in Exprs : \E n \in 0..MaxNodes :
            /\ lit = RepeatLit(e, n).pushed
            /\ rep = Repeat(e, n)
     ELSE /\ lit \in Lits
          /\ rep = NoRep
  /\ pc = IF lit # <<>> THEN "build" ELSE IF rep.returned THEN "built" ELSE "left"
  /\ out = <<>>
  /\ snap = l
  /\ views = NoViews

\* `$( list.push_front($x); )*`
LitPush ==
  /\ pc = "build"
  /\ l.status = "ok"
  /\ LET v == lit[ins + 1]
         front == build # "push_back"
     IN /\ \E o \in (IF front THEN PushFrontOf(eng, l, v)
                     ELSE PushBackOf(eng, l, v)) :
             l' = o.st /\ res' = o.res
        /\ ref' = IF front THEN RefPushFront(ref, v) ELSE RefPushBack(ref, v)
        /\ op' = Call(IF front THEN "push_front" ELSE "push_back", v)
  /\ r_res' = UNIT
  /\ ins' = ins + 1
  /\ pc' = IF ins + 1 < Len(lit) THEN "build"
           ELSE IF rep.returned THEN "built" ELSE "left"
  /\ UNCHANGED <<eng, views, rem, contract_only, lit, build, rep, out, snap>>

\* format!("{}", list) on the list just built
LitDisplay ==
  /\ pc = "built"
  /\ l.status = "ok"
  /\ \E o \in DisplayOf(eng, l) : l' = o.st /\ res' = o.res
  /\ r_res' = Str(ref)
  /\ op' = Call("fmt", 0)
  /\ contract_only' = FALSE
  /\ UNCHANGED <<eng, views, ref, ins, rem, lit, build, rep, pc, out, snap>>

DrainFront ==
  /\ pc \in {"built", "drain_front"}
  /\ l.status = "ok"
  /\ Len(out) <= Len(lit)
  /\ \E o \in PopFrontOf(eng, l) :
       /\ l' = o.st
       /\ res' = o.res
       /\ out' = Append(out, o.res)
       /\ rem' = IF o.res.tag = "Some" THEN rem + 1 ELSE rem
  /\ ref' = RefPopFront(ref).st
  /\ r_res' = RefPopFront(ref).res
  /\ op' = Call("pop_front", 0)
  /\ pc' = "drain_front"
  /\ UNCHANGED <<eng, views, ins, contract_only, lit, build, rep, snap>>

DrainBack ==
  /\ pc \in {"built", "drain_back"}
  /\ l.status = "ok"
  /\ Len(out) <= Len(lit)
  /\ \E o \in PopBackOf(eng, l) :
       /\ l' = o.st
       /\ res' = o.res
       /\ out' = Append(out, o.res)
       /\ rem' = IF o.res.tag = "Some" THEN rem + 1 ELSE rem
  /\ ref' = RefPopBack(ref).st
  /\ r_res' = RefPopBack(ref).res
  /\ op' = Call("pop_back", 0)
  /\ pc' = "drain_back"
  /\ UNCHANGED <<eng, views, ins, contract_only, lit, build, rep, snap>>

\* list.nth(i) on the list just built
LitNth(i) ==
  /\ pc = "built"
  /\ eng = "unsafe"
  /\ l.status = "ok"
  /\ \E o \in UnsafeNth(l, i) : l' = o.st /\ res' = o.res
  /\ r_res' = RefNth(ref, i)
  /\ op' = Call("nth", i)
  /\ contract_only' = FALSE
  /\ snap' = l
  /\ pc' = "nth_done"
  /\ UNCHANGED <<eng, views, ref, ins, rem, lit, build, rep, out>>

\* list.push_back(v) or list.push_front(v) on the list just built
RoundTripPush(v) ==
  /\ pc = "built"
  /\ l.status = "ok"
  /\ l.nid < MaxNodes
  /\ \E end \in {"back", "front"} :
       /\ \E o \in (IF end = "back" THEN PushBackOf(eng, l, v)
                     ELSE PushFrontOf(eng, l, v)) :
            l' = o.st /\ res' = o.res
       /\ ref' = IF end = "back" THEN RefPushBack(ref, v) ELSE RefPushFront(ref, v)
       /\ op' = Call(IF end = "back" THEN "push_back" ELSE "push_front", v)
       /\ pc' = IF end = "back" THEN "rt_back" ELSE "rt_front"
  /\ r_res' = UNIT
  /\ ins' = ins + 1
  /\ snap' = l
  /\ UNCHANGED <<eng, views, rem, contract_only, lit, build, rep, out>>

\* the pop at the end just pushed to
RoundTripPop ==
  /\ pc \in {"rt_back", "rt_front"}
  /\ l.status = "ok"
  /\ \E o \in (IF pc = "rt_back" THEN PopBackOf(eng, l) ELSE PopFrontOf(eng, l)) :
       /\ l' = o.st
       /\ res' = o.res
       /\ rem' = IF o.res.tag = "Some" THEN rem + 1 ELSE rem
  /\ ref' = IF pc = "rt_back" THEN RefPopBack(ref).st ELSE RefPopFront(ref).st
  /\ r_res' = IF pc = "rt_back" THEN RefPopBack(ref).res ELSE RefPopFront(ref).res
  /\ op' = Call(IF pc = "rt_back" THEN "pop_back" ELSE "pop_front", 0)
  /\ pc' = "rt_done"
  /\ UNCHANGED <<eng, views, ins, contract_only, lit, build, rep, out, snap>>

\* ----------------------------------------------- clear() against new()
\* The list built from the literal, or what a drain has left of it, is
\* cleared; the next call made on it is also made on a list that new()
\* returned (snap), if the call is defined and the two answer alike.
UnsafeCalls ==
  {Call(n, v) : n \in {"push_front", "push_back", "front_mut", "back_mut"},
                v \in Data}
    \cup {Call(n, 0) : n \in {"pop_front", "pop_back", "len", "is_empty",
                               "front", "back", "fmt", "clear"}}
    \cup {Call("nth", i) : i \in Idx}

UnsafeApply(u, c) ==
  CASE c.name = "push_front" -> UnsafePushFront(u, c.arg)
    [] c.name = "push_back" -> UnsafePushBack(u, c.arg)
    [] c.name = "pop_front" -> UnsafePopFront(u)
    [] c.name = "pop_back" -> UnsafePopBack(u)
    [] c.name = "len" -> {Outcome(u, LenRes(UnsafeLen(u)))}
    [] c.name = "is_empty" -> {Outcome(u, BoolRes(UnsafeIsEmpty(u)))}
    [] c.name = "front" -> UnsafeFront(u)
    [] c.name = "back" -> UnsafeBack(u)
    [] c.name = "front_mut" -> UnsafeFrontMut(u, c.arg)
    [] c.name = "back_mut" -> UnsafeBackMut(u, c.arg)
    [] c.name = "fmt" -> UnsafeDisplay(u)
    [] c.name = "clear" -> UnsafeClear(u)
    [] c.name = "nth" -> UnsafeNth(u, c.arg)

\* the call executes undefined behaviour
Undefined(u, c) ==
  \E o \in UnsafeApply(u, c) :
     o.st.status \in {"ub", "aborted"} \/ o.st.uaf \/ o.st.dfree

LitClear ==
  /\ pc \in {"built", "drain_front", "drain_back"}
  /\ eng = "unsafe"
  /\ l.status = "ok"
  /\ \E o \in UnsafeClear(l) : l' = o.st /\ res' = o.res
  /\ snap' = UnsafeNew
  /\ ref' = <<>>
  /\ r_res' = UNIT
  /\ op' = Call("clear", 0)
  /\ contract_only' = FALSE
  /\ pc' = "cleared"
  /\ UNCHANGED <<eng, views, ins, rem, lit, build, rep, out>>

AfterClear(c) ==
  /\ pc = "cleared"
  /\ l.status = "ok"
  /\ snap.status = "ok"
  /\ c.name \in {"push_front", "push_back"} => l.nid < MaxNodes
  /\ ~Undefined(l, c)
  /\ ~Undefined(snap, c)
  /\ \E o \in UnsafeApply(l, c) : \E n \in UnsafeApply(snap, c) :
       /\ o.res = n.res
       /\ o.st.status = n.st.status
       /\ l' = o.st
       /\ snap' = n.st
       /\ res' = o.res
       /\ r_res' = n.res
  /\ op' = c
  /\ pc' = "after_clear"
  /\ UNCHANGED <<eng, views, ref, ins, rem, contract_only, lit, build, rep, out>>

InitClear == InitLit /\ eng = "unsafe"

NextClear ==
  \/ LitPush
  \/ DrainFront
  \/ DrainBack
  \/ LitClear
  \/ \E c \in UnsafeCalls : AfterClear(c)

SpecClear == InitClear /\ [][NextClear]_vars

NextLit ==
  \/ LitPush
  \/ LitDisplay
  \/ DrainFront
  \/ DrainBack
  \/ \E v \in Data : RoundTripPush(v)
  \/ RoundTripPop
  \/ \E i \in Idx : LitNth(i)

SpecLit == InitLit /\ [][NextLit]_vars

\* ========================================================================
\*                               properties
\* ========================================================================

\* the list exists and no call on it has panicked, aborted or executed
\* undefined behaviour
Sound == l.status = "ok" /\ l.mode # "dropped"

\* the list can be called: it exists, is sound and has not been moved
Callable == l.status = "ok" /\ l.mode = "list"

\* ---- C1 ----------------------------------------------------------------
\* C1: as long as only push_front, push_back, pop_front, pop_back and len
\* have been called, every call returned what the reference sequence
\* returns for it, in both engines.
C1_SameAsReference == contract_only => res = r_res

\* the same for SafeLinkedList alone
C1_SafeSameAsReference == (eng = "safe" /\ contract_only) => res = r_res

\* ---- C2 ----------------------------------------------------------------
\* C2: under push and pop calls len is the number of insertions minus the
\* number of removals that returned Some, and the counter never passes
\* below 0.
C2_LenCounts ==
  contract_only => /\ l.len = ins - rem
                   /\ l.len >= 0
                   /\ l.status # "panicked"

C2_SafeLenCounts == eng = "safe" => C2_LenCounts

\* ---- C3 ----------------------------------------------------------------
\* C3: whenever len() is 0, pop_front and pop_back return None, leave len
\* at 0 and do not panic.
C3_PopOnEmpty ==
  (Callable /\ LenOf(eng, l) = 0) =>
    \A o \in PopFrontOf(eng, l) \cup PopBackOf(eng, l) :
      /\ o.res = NONE
      /\ LenOf(eng, o.st) = 0
      /\ o.st.status = "ok"

C3_SafePopOnEmpty == eng = "safe" => C3_PopOnEmpty

\* ---- C4 ----------------------------------------------------------------
\* C4: len = 0 exactly when head and tail are both None, and at len = 1
\* head and tail are the same node.
C4_Terminals ==
  Sound => /\ (l.len = 0 <=> (l.head = None /\ l.tail = None))
           /\ (l.len = 1 => (l.head # None /\ l.head = l.tail))

C4_SafeTerminals == eng = "safe" => C4_Terminals

\* ---- C5 ----------------------------------------------------------------
\* the handles met from `node` along dir, a dangling one ending the walk
RECURSIVE Chain(_, _, _, _)
Chain(st, node, dir, fuel) ==
  IF node = None \/ fuel = 0 THEN <<>>
  ELSE IF node \notin st.live THEN <<node>>
  ELSE <<node>> \o Chain(st, IF dir = "next" THEN st.mem[node].next
                             ELSE st.mem[node].prev, dir, fuel - 1)

WellLinked(st) ==
  LET fwd == Chain(st, st.head, "next", MaxNodes + 1)
      bwd == Chain(st, st.tail, "prev", MaxNodes + 1)
  IN /\ Len(fwd) = st.len
     /\ \A i \in 1..Len(fwd) : fwd[i] \in st.live
     /\ IF fwd = <<>> THEN st.tail = None ELSE fwd[Len(fwd)] = st.tail
     /\ bwd = Reverse(fwd)
     /\ \A a, b \in st.live : st.mem[a].next = b <=> st.mem[b].prev = a
     /\ st.tail # None => st.mem[st.tail].next = None
     /\ st.head # None => st.mem[st.head].prev = None

\* C5: next links lead from head through exactly len nodes to tail, prev
\* links lead back through the same nodes, and next and prev mirror each
\* other.
C5_WellLinked == Sound => WellLinked(l)

C5_SafeWellLinked == eng = "safe" => C5_WellLinked

\* ---- C6 ----------------------------------------------------------------
\* C6: UnsafeLinkedList never frees a node twice, never reads or writes a
\* freed node, and never frees a node that head, tail or a neighbour still
\* names.
C6_MemorySafe == eng = "unsafe" => (~l.dfree /\ ~l.uaf /\ ~l.refd)

\* the three parts of C6, one by one
C6a_NoDoubleFree == eng = "unsafe" => ~l.dfree
C6b_NoUseAfterFree == eng = "unsafe" => ~l.uaf
C6c_NoFreeWhileReferenced == eng = "unsafe" => ~l.refd

\* ---- C7 ----------------------------------------------------------------
\* C7: after clear() and after the list or its iterator is dropped no node
\* of the list is still allocated, and no node was freed twice.
C7_NoLeak ==
  (op.name \in {"clear", "drop"} /\ l.status = "ok") =>
     (l.live = {} /\ ~l.dfree)

C7_SafeNoLeak == eng = "safe" => C7_NoLeak

\* ---- C8 ----------------------------------------------------------------
\* b is the list a again: same terminals, len, allocated nodes and links
SameList(a, b) ==
  /\ a.head = b.head
  /\ a.tail = b.tail
  /\ a.len = b.len
  /\ a.live = b.live
  /\ \A n \in a.live : /\ a.mem[n].prev = b.mem[n].prev
                       /\ a.mem[n].next = b.mem[n].next

RoundTripBack(e, st) ==
  \A v \in Data : \A o1 \in PushBackOf(e, st, v) : \A o2 \in PopBackOf(e, o1.st) :
    o2.res = Some(v) /\ SameList(st, o2.st)

RoundTripFront(e, st) ==
  \A v \in Data : \A o1 \in PushFrontOf(e, st, v) : \A o2 \in PopFrontOf(e, o1.st) :
    o2.res = Some(v) /\ SameList(st, o2.st)

\* C8: push_back(x) immediately followed by pop_back() returns Some(x) and
\* gives the list back exactly as it was before the push, and so does
\* push_front(x) immediately followed by pop_front().
C8_RoundTrip ==
  pc = "rt_done" => (res = r_res /\ res.tag = "Some" /\ SameList(snap, l))

\* the same law from every state of a free run, for SafeLinkedList alone
C8_SafeRoundTrip ==
  (eng = "safe" /\ Callable /\ l.nid < MaxNodes) =>
     (RoundTripBack(eng, l) /\ RoundTripFront(eng, l))

\* the same law from every state of a free run, for both engines
C8_RoundTripEverywhere ==
  (Callable /\ l.nid < MaxNodes) =>
     (RoundTripBack(eng, l) /\ RoundTripFront(eng, l))

\* len is read only while its representative is the usize itself
LenRepresentable == l.status = "ok" => l.len >= 0

\* ---- C9 ----------------------------------------------------------------
\* the results of draining: the values of q in order, then None
Drained(q) ==
  \A i \in 1..Len(out) : out[i] = IF i <= Len(q) THEN Some(q[i]) ELSE NONE

\* C9: a list built by push_front(v1), ..., push_front(vn) yields
\* vn, ..., v1 and then None under pop_front and v1, ..., vn and then None
\* under pop_back; a list built by push_back(v1), ..., push_back(vn) yields
\* vn, ..., v1 and then None under pop_back.
C9_DrainOrder ==
  /\ (build = "push_front" /\ pc = "drain_front") => Drained(Reverse(lit))
  /\ (build = "push_front" /\ pc = "drain_back") => Drained(lit)
  /\ (build = "push_back" /\ pc = "drain_back") => Drained(Reverse(lit))

\* a three element literal that is no palindrome, built by push_front and
\* drained by pop_front down to the final None
C9_Witness ==
  /\ build = "push_front"
  /\ pc = "drain_front"
  /\ Len(lit) = 3
  /\ lit[1] # lit[3]
  /\ Len(out) = 4
  /\ res = NONE

\* ---- C10 ---------------------------------------------------------------
\* the list is the macro's, an UnsafeLinkedList built by push_front, and has
\* been rendered as built
MacroShown ==
  eng = "unsafe" /\ build = "push_front" /\ pc = "built" /\ op.name = "fmt"

\* C10 as amended: Display renders linked_list![v1, ..., vn] from head to
\* tail as v1, ..., vn, the literal's own left-to-right order.
C10_DisplayIsLiteralOrder == MacroShown => res = Str(lit)

\* C10 as stated: Display renders linked_list![v1, ..., vn] from head to
\* tail as vn, ..., v1, the reverse of the literal.
C10_DisplayIsReversed == MacroShown => res = Str(Reverse(lit))

\* a literal that differs from its reverse has been built and rendered
C10_Witness == MacroShown /\ Len(lit) >= 2 /\ lit # Reverse(lit)

\* ---- C11 ---------------------------------------------------------------
\* C11: in every state reached by pushes and pops, Display renders exactly
\* len() values, those of the nodes from head to tail (push_front appends,
\* push_back prepends, the empty list gives no value), and leaves the list
\* as it was.
C11_DisplayRenders ==
  (contract_only /\ Callable) =>
     \A o \in DisplayOf(eng, l) :
       /\ o.res = Str(ref)
       /\ Len(ref) = LenOf(eng, l)
       /\ o.st = l

C11_SafeDisplayRenders == eng = "safe" => C11_DisplayRenders

\* ---- C12 ---------------------------------------------------------------
\* C12: nth(i) of UnsafeLinkedList returns the value i links after head
\* for i < len(), and None for i >= len().
C12_NthValue == (eng = "unsafe" /\ op.name = "nth") => res = r_res

\* the same for a list on which nth has not been called before
C12_FirstNthValue ==
  (eng = "unsafe" /\ contract_only /\ Callable) =>
     \A i \in Idx : \A o \in UnsafeNth(l, i) : o.res = RefNth(ref, i)

\* ---- C20 ---------------------------------------------------------------
\* C20: nth of UnsafeLinkedList changes nothing: head, tail, len, every
\* link and the set of allocated nodes are as before the call.
C20_NthIsPure ==
  (eng = "unsafe" /\ Callable) =>
     \A i \in Idx : \A o \in UnsafeNth(l, i) : o.st = l

\* ---- C13 ---------------------------------------------------------------
\* C13: a pop of SafeLinkedList never panics: when Rc::try_unwrap is
\* applied the removed node has no strong owner but the local, in
\* particular when the list has one node, whose pop returns Some(value).
C13_UnwrapSucceeds ==
  /\ (eng = "safe" /\ op.name \in {"pop_front", "pop_back", "next"}) =>
        (res # PANIC /\ res = r_res /\ l.status = "ok")
  /\ (eng = "safe" /\ Usable) =>
        \A o \in SafePopFront(l) \cup SafePopBack(l) :
          /\ o.res # PANIC
          /\ l.len = 1 => o.res = Some(ref[1])

\* the nodes pop_front borrows mutably: the tail it removes and, when the
\* prev link upgrades, the node that becomes the tail
PopFrontBorrows(st) ==
  LET s1 == SafePopFrontGuard(st)
      old_tail == s1.tail
  IN IF old_tail = None THEN {}
     ELSE {old_tail, Upgrade([s1 EXCEPT !.tail = None],
                             s1.mem[old_tail].prev)} \ {None}

\* the nodes pop_back borrows mutably: the head it removes and its next
PopBackBorrows(st) ==
  LET s1 == SafePopBackGuard(st)
      old_head == s1.head
  IN IF old_head = None THEN {}
     ELSE {old_head, s1.mem[old_head].next} \ {None}

\* C13, with the guards the caller leaked taken into account: a pop of
\* SafeLinkedList panics exactly when a node it borrows mutably is still
\* borrowed by a leaked guard (borrow_mut panics before the unwrap);
\* otherwise it returns what the reference returns, Some(value) on a list
\* of one node, so Rc::try_unwrap never fails: the removed node has no
\* strong owner but the local when it is applied.
C13_UnwrapFailsOnlyBorrowed ==
  /\ (eng = "safe" /\ op.name \in {"pop_front", "pop_back", "next"}
        /\ res # PANIC) => (res = r_res /\ l.status = "ok")
  /\ (eng = "safe" /\ Usable) =>
        \A o \in SafePopFront(l) :
          /\ o.res = PANIC <=>
               \E n \in PopFrontBorrows(l) : ~SafeBorrowMutOk(l.leak, n)
          /\ (o.res # PANIC /\ l.len = 1) => o.res = Some(ref[1])
  /\ (eng = "safe" /\ pc = "free" /\ l.status = "ok"
        /\ l.mode \in {"list", "iter"} /\ views = Leaked) =>
        \A o \in SafePopBack(l) :
          /\ o.res = PANIC <=>
               \E n \in PopBackBorrows(l) : ~SafeBorrowMutOk(l.leak, n)
          /\ (o.res # PANIC /\ l.len = 1) => o.res = Some(ref[1])

\* a pop on a list of one node has returned its value
C13_Witness ==
  /\ eng = "safe"
  /\ op.name \in {"pop_front", "pop_back"}
  /\ res.tag = "Some"
  /\ l.len = 0
  /\ l.status = "ok"

\* ---- C14 ---------------------------------------------------------------
\* C14: on a node of SafeLinkedList a RefMut is never outstanding together
\* with any other guard.  A peek_*_mut on a node that has a guard panics, a
\* peek_* on a node that has a RefMut panics, and every other peek on a
\* non-empty list is granted, whatever guards the other nodes have.
Guarded(n) == views[n].sh + views[n].mu > 0

C14_BorrowRules ==
  eng = "safe" =>
    /\ \A n \in Handles : views[n].mu <= 1 /\ (views[n].mu = 1 => views[n].sh = 0)
    /\ Shared =>
         /\ \A o \in SafePeekFrontMut(l, views) :
              /\ l.tail = None => o.res = NONE
              /\ (l.tail # None /\ Guarded(l.tail)) => o.res = PANIC
              /\ (l.tail # None /\ ~Guarded(l.tail)) => o.res = RefFront(ref)
         /\ \A o \in SafePeekBackMut(l, views) :
              /\ l.head = None => o.res = NONE
              /\ (l.head # None /\ Guarded(l.head)) => o.res = PANIC
              /\ (l.head # None /\ ~Guarded(l.head)) => o.res = RefBack(ref)
         /\ \A o \in SafePeekFront(l, views) :
              /\ (l.tail # None /\ views[l.tail].mu > 0) => o.res = PANIC
              /\ (l.tail # None /\ views[l.tail].mu = 0) => o.res = RefFront(ref)
         /\ \A o \in SafePeekBack(l, views) :
              /\ (l.head # None /\ views[l.head].mu > 0) => o.res = PANIC
              /\ (l.head # None /\ views[l.head].mu = 0) => o.res = RefBack(ref)

\* peek_back_mut panicked on the one node of a list while the caller held
\* a Ref from peek_front on it
C14_Witness ==
  /\ eng = "safe"
  /\ op.name = "peek_back_mut"
  /\ res = PANIC
  /\ l.len = 1
  /\ l.head = l.tail
  /\ views[l.tail].sh > 0

\* both terminals of a longer list are mutably borrowed at once
C14_DistinctNodes ==
  /\ eng = "safe"
  /\ l.status = "ok"
  /\ l.head # l.tail
  /\ l.head # None /\ l.tail # None
  /\ views[l.head].mu = 1 /\ views[l.tail].mu = 1

\* ---- C15 ---------------------------------------------------------------
\* the results of k more calls of next() on the Iter that holds st, and
\* the list it is left with; a call that does not return ends the run
RECURSIVE IterRun(_, _, _, _)
IterRun(e, st, outs, k) ==
  IF k = 0 \/ st.status # "ok" THEN {[st |-> st, outs |-> outs]}
  ELSE UNION {IterRun(e, o.st, Append(outs, o.res), k - 1) :
                o \in IterNextOf(e, st)}

\* list.into_iter() consumed with len() + 1 calls of next()
IterAll(e, st) ==
  UNION {IterRun(e, o.st, <<>>, LenOf(e, st) + 1) : o \in IntoIterOf(e, st)}

\* C15: from every state reached by pushes and pops, consuming iteration
\* yields the len() values from head to tail, then None, and leaves the
\* list empty.
C15_IterationYieldsAll ==
  (contract_only /\ Callable) =>
     \A d \in IterAll(eng, l) :
       /\ d.outs = [i \in 1..(Len(ref) + 1) |->
                      IF i <= Len(ref) THEN Some(ref[i]) ELSE NONE]
       /\ d.st.status = "ok"
       /\ d.st.len = 0

C15_SafeIterationYieldsAll == eng = "safe" => C15_IterationYieldsAll

\* ---- C16 ---------------------------------------------------------------
\* front() / peek_front() and back() / peek_back() as called on a list on
\* which the caller holds no guard: the borrows outstanding on a
\* SafeLinkedList are those of the guards that were leaked
FrontOf(e, st) ==
  IF e = "unsafe" THEN UnsafeFront(st)
  ELSE {Outcome(o.st, o.res) : o \in SafePeekFront(st, st.leak)}
BackOf(e, st) ==
  IF e = "unsafe" THEN UnsafeBack(st)
  ELSE {Outcome(o.st, o.res) : o \in SafePeekBack(st, st.leak)}

\* C16: in every state reached by pushes and pops, front / peek_front
\* returns None exactly when len() is 0 and otherwise the value of the tail
\* node, back / peek_back likewise with the head node, and the list is as
\* before the call.
C16_PeekTerminals ==
  (contract_only /\ Callable) =>
     /\ \A o \in FrontOf(eng, l) :
          /\ o.res = NONE <=> LenOf(eng, l) = 0
          /\ o.res = RefFront(ref)
          /\ o.res # NONE => (l.tail # None /\ o.res = Some(l.mem[l.tail].data))
          /\ o.st = l
     /\ \A o \in BackOf(eng, l) :
          /\ o.res = NONE <=> LenOf(eng, l) = 0
          /\ o.res = RefBack(ref)
          /\ o.res # NONE => (l.head # None /\ o.res = Some(l.mem[l.head].data))
          /\ o.st = l

\* the same for SafeLinkedList in every reachable state in which the peeked
\* node is not mutably borrowed
C16_SafePeekTerminals ==
  (eng = "safe" /\ Shared) =>
     /\ \A o \in SafePeekFront(l, views) :
          o.res # PANIC =>
            /\ o.res = NONE <=> SafeLen(l) = 0
            /\ o.res = RefFront(ref)
            /\ o.st = l
     /\ \A o \in SafePeekBack(l, views) :
          o.res # PANIC =>
            /\ o.res = NONE <=> SafeLen(l) = 0
            /\ o.res = RefBack(ref)
            /\ o.st = l

\* ---- C17 ---------------------------------------------------------------
\* what a caller can see of one call: its result and whether it returned,
\* or that anything may happen
Answers(u, c) ==
  IF Undefined(u, c) THEN {[res |-> UNIT, status |-> "ub"]}
  ELSE {[res |-> o.res, status |-> o.st.status] : o \in UnsafeApply(u, c)}

\* the list has been cleared and has since taken at most one call
Cleared == pc \in {"cleared", "after_clear"}

\* C17: after clear() the list is empty (is_empty() true, len() 0, head and
\* tail None, rendered "[]"); it answers a call, and any call after that
\* one, as a list from new() given the same calls does; is_empty() is
\* len() == 0.
C17_ClearIsNew ==
  /\ eng = "unsafe" => (UnsafeIsEmpty(l) <=> UnsafeLen(l) = 0)
  /\ pc = "cleared" =>
        /\ l.head = None /\ l.tail = None
        /\ UnsafeLen(l) = 0
        /\ UnsafeIsEmpty(l)
        /\ UnsafeDisplay(l) = {Outcome(l, Str(<<>>))}
        /\ l.status = "ok"
  /\ Cleared =>
        /\ res = r_res
        /\ l.status = snap.status
        /\ UnsafeLen(l) = UnsafeLen(snap)
        /\ l.head = None <=> snap.head = None
        /\ l.tail = None <=> snap.tail = None
        /\ l.status = "ok" =>
             \A c \in UnsafeCalls :
               (c.name \in {"push_front", "push_back"} => l.nid < MaxNodes) =>
                  Answers(l, c) = Answers(snap, c)

\* a list that held nodes was cleared and then took a push
C17_Witness ==
  /\ pc = "after_clear"
  /\ Len(lit) > 0
  /\ op.name = "push_front"
  /\ UnsafeLen(l) = 1
  /\ l.status = "ok"

\* ---- C18 ---------------------------------------------------------------
\* the lists that push_front(q[i]), ..., push_front(q[Len(q)]) make of u
RECURSIVE PushedFront(_, _, _)
PushedFront(u, q, i) ==
  IF i > Len(q) THEN {u}
  ELSE UNION {PushedFront(o.st, q, i + 1) : o \in UnsafePushFront(u, q[i])}

\* the list is what linked_list![] (the empty literal), linked_list![v1,
\* ..., vn] or linked_list![e; n] has returned
MacroBuilt ==
  eng = "unsafe" /\ build \in {"push_front", "repeat"} /\ pc = "built"

\* C18: the list a form of linked_list! returns is new() followed by
\* push_front of each value: it has one node per value, in the order
\* written; the empty form gives the empty list; linked_list![e; n] for a
\* value e has len n and n nodes that all hold e.
C18_MacroForms ==
  MacroBuilt =>
    /\ l.status = "ok"
    /\ l \in PushedFront(UnsafeNew, lit, 1)
    /\ UnsafeLen(l) = Len(lit)
    /\ UnsafeDisplay(l) = {Outcome(l, Str(lit))}
    /\ lit = <<>> => (l = UnsafeNew /\ UnsafeIsEmpty(l))
    /\ (build = "repeat" /\ rep.value # NONE) =>
         /\ UnsafeLen(l) = rep.n
         /\ \A d \in IterAll(eng, l) :
              /\ Len(d.outs) = rep.n + 1
              /\ \A i \in 1..rep.n : d.outs[i] = rep.value

\* linked_list![e; 3] has been built for a value e
C18_Witness ==
  /\ MacroBuilt
  /\ build = "repeat"
  /\ rep.value # NONE
  /\ rep.n = 3
  /\ op.name = "push_front"
  /\ UnsafeLen(l) = 3

\* ---- C19 ---------------------------------------------------------------
\* C19: for a valid index i, nth starts at the terminal that is not
\* farther from node i than the other one, head when i < len() / 2 and tail
\* otherwise, follows i next links or len() - i - 1 prev links, never more
\* than len() / 2, and ends on the node that is i links after head.
C19_NthWalk ==
  /\ (eng = "unsafe" /\ pc = "built") =>
       \A i \in 0..(UnsafeLen(l) - 1) :
         LET n == UnsafeLen(l)
             k == UnsafeNthSteps(l, i)
             head_side == UnsafeNthFromHead(l, i)
         IN /\ head_side <=> i < n \div 2
            /\ k = IF head_side THEN i ELSE n - i - 1
            /\ IF head_side THEN i <= n - i - 1 ELSE n - i - 1 <= i
            /\ k <= n \div 2
            /\ UnsafeWalk(l, IF head_side THEN l.head ELSE l.tail, k,
                          IF head_side THEN "next" ELSE "prev")
                 = UnsafeWalk(l, l.head, i, "next")
  /\ (eng = "unsafe" /\ pc = "nth_done") => res = r_res

\* nth(1) on a list of four nodes, reached by one next link from head, and
\* nth(2), reached by one prev link from tail
C19_Witness ==
  /\ eng = "unsafe"
  /\ pc = "nth_done"
  /\ Len(lit) = 4
  /\ op = Call("nth", 1)
  /\ UnsafeNthFromHead(snap, 1)
  /\ UnsafeNthSteps(snap, 1) = 1
  /\ ~UnsafeNthFromHead(snap, 2)
  /\ UnsafeNthSteps(snap, 2) = 1
  /\ res.tag = "Some"

\* ---- C21 ---------------------------------------------------------------
\* node `to` is met from `from` along strong next links, in at most fuel steps
RECURSIVE NextReaches(_, _, _, _)
NextReaches(st, from, to, fuel) ==
  /\ from # None
  /\ fuel > 0
  /\ from \in st.live
  /\ \/ st.mem[from].next = to
     \/ NextReaches(st, st.mem[from].next, to, fuel - 1)

\* the weak prev link that pop_front would upgrade in state st, and the
\* list at that point: after the len() == 1 statement and `self.tail.take()`
PopFrontTaken(st) == [SafePopFrontGuard(st) EXCEPT !.tail = None]
PopFrontPrev(st) ==
  LET s1 == SafePopFrontGuard(st)
  IN IF s1.tail = None THEN None ELSE s1.mem[s1.tail].prev

\* C21: in SafeLinkedList the weak prev link of a tail node that pop_front
\* removes always upgrades, so after pop_front tail is None only if the
\* list is empty, and no node is met again by following next links from it.
C21_PrevUpgrades ==
  eng = "safe" =>
    /\ Usable =>
         (PopFrontPrev(l) # None =>
            Upgrade(PopFrontTaken(l), PopFrontPrev(l)) # None)
    /\ (op.name = "pop_front" /\ l.status = "ok") =>
         /\ l.tail = None => SafeLen(l) = 0
         /\ res = r_res
    /\ l.status = "ok" =>
         \A a \in l.live : ~NextReaches(l, a, a, MaxNodes + 1)

\* pop_front has removed a tail that had a predecessor, which is the tail now
C21_Witness ==
  /\ eng = "safe"
  /\ op.name = "pop_front"
  /\ res.tag = "Some"
  /\ l.status = "ok"
  /\ l.tail # None
  /\ SafeLen(l) >= 2
  /\ l.mem[l.tail].prev # None

====
